---- MODULE Spec2Model ----
(***************************************************************************)
(* Cattle Health Conditions Dashboard (streamlit_app.py).                  *)
(*                                                                         *)
(* The script runs top to bottom once per rerun: load_data, the sidebar    *)
(* widgets, the empty-selection defaulting, the date conversion, the mask, *)
(* the three summary metrics and the five grouped views.  Each statement   *)
(* group is one action; pc is the position of the script.  An uncaught     *)
(* exception ends the run (pc = "crashed", err = the exception).           *)
(*                                                                         *)
(* Values of a numeric pandas result are records [kind, num, den]:         *)
(* kind "num" is the rational num/den, "nan" is NaN, "inf"/"-inf" are the  *)
(* IEEE infinities a float division by zero yields.                        *)
(***************************************************************************)
EXTENDS Integers, Sequences, FiniteSets

VARIABLES pc, err, df, selection, species, inspection_types, date_range,
          start_date, end_date, filtered, metrics, monthly, species_stats,
          insp_stats, inhab, plants, labels, bdata

vars == <<pc, err, df, selection, species, inspection_types, date_range,
          start_date, end_date, filtered, metrics, monthly, species_stats,
          insp_stats, inhab, plants, labels, bdata>>

\* Largest number of data rows of the CSV file.
MaxRows == 3

(***************************************************************************)
(* Values                                                                  *)
(***************************************************************************)
\* A missing cell of an object column (pandas NaN).
NA == "NaN"

\* Lexicographic order of the strings that occur as group keys.
AlphaOrder == <<"Ante-mortem", "Cattle", "Post-mortem", "Sheep">>

StrRank(s) == CHOOSE i \in 1..Len(AlphaOrder) : AlphaOrder[i] = s

Num(n) == [kind |-> "num", num |-> n, den |-> 1]

NaN == [kind |-> "nan", num |-> 0, den |-> 1]

Inf == [kind |-> "inf", num |-> 0, den |-> 1]

NegInf == [kind |-> "-inf", num |-> 0, den |-> 1]

\* Float true division a / b of two integers (numpy: 0/0 = nan, x/0 = +-inf).
TrueDiv(a, b) ==
    IF b = 0
    THEN IF a = 0 THEN NaN ELSE IF a > 0 THEN Inf ELSE NegInf
    ELSE IF b > 0 THEN [kind |-> "num", num |-> a, den |-> b]
                  ELSE [kind |-> "num", num |-> -a, den |-> -b]

\* v * 100 (nan and the infinities are unchanged by a positive factor).
Times100(v) == IF v.kind = "num" THEN [v EXCEPT !.num = 100 * v.num] ELSE v

\* Equality of two values as numbers; NaN equals nothing.
ValEq(v, w) ==
    \/ v.kind = "num" /\ w.kind = "num" /\ v.num * w.den = w.num * v.den
    \/ v.kind \in {"inf", "-inf"} /\ w.kind = v.kind

\* Sum of two values.
ValAdd(v, w) ==
    IF v.kind = "num" /\ w.kind = "num"
    THEN [kind |-> "num", num |-> v.num * w.den + w.num * v.den, den |-> v.den * w.den]
    ELSE IF v.kind = "nan" \/ w.kind = "nan" THEN NaN
    ELSE IF v.kind = "num" THEN w
    ELSE IF w.kind = "num" THEN v
    ELSE IF v.kind = w.kind THEN v ELSE NaN

(***************************************************************************)
(* Dates.  A datetime.date is [year, month, day]; a pandas Timestamp adds  *)
(* the time of day (0 = midnight).  NaT is the missing Timestamp.          *)
(***************************************************************************)
NaT == [year |-> 0, month |-> 0, day |-> 0, time |-> 0]

Date(y, m, d) == [year |-> y, month |-> m, day |-> d]

\* Position of a Timestamp on the time line (months of at most 31 days).
TsOrd(t) == (((t.year * 12 + (t.month - 1)) * 31 + (t.day - 1)) * 2) + t.time

\* pd.to_datetime(datetime.date): midnight of that day.
to_datetime(d) == [year |-> d.year, month |-> d.month, day |-> d.day, time |-> 0]

\* Timestamp.date(): the calendar day, the time of day dropped.
ts_date(t) == Date(t.year, t.month, t.day)

\* Timestamp comparison t <= u; any comparison with NaT is False.
TsLE(t, u) == t # NaT /\ u # NaT /\ TsOrd(t) <= TsOrd(u)

\* A month number pd.to_datetime accepts.
ValidMonth(m) == m \in 1..12

\* pd.to_datetime(ym + '-01') of one "YYYY-MM" cell: the first of the month.
parse_year_month(ym) == [year |-> ym.year, month |-> ym.month, day |-> 1, time |-> 0]

(***************************************************************************)
(* Strings of the Condition column are sequences of characters.            *)
(***************************************************************************)
IsSpace(c) == c = " "

RECURSIVE lstrip(_)
lstrip(s) == IF s # <<>> /\ IsSpace(Head(s)) THEN lstrip(Tail(s)) ELSE s

RECURSIVE rstrip(_)
rstrip(s) ==
    IF s # <<>> /\ IsSpace(s[Len(s)]) THEN rstrip(SubSeq(s, 1, Len(s) - 1)) ELSE s

\* str.strip(): leading and trailing whitespace removed.
strip(s) == rstrip(lstrip(s))

(***************************************************************************)
(* Column helpers (pandas Series / DataFrame operations).                  *)
(***************************************************************************)
\* The ascending sequence of the elements of S under rank.
RECURSIVE SortBy(_, _)
SortBy(S, rank) ==
    IF S = {} THEN <<>>
    ELSE LET m == CHOOSE x \in S : \A y \in S : rank[x] <= rank[y]
         IN <<m>> \o SortBy(S \ {m}, rank)

\* Series.sum() of an integer column (0 for an empty column).
RECURSIVE col_sum(_, _)
col_sum(rows, col) ==
    IF rows = <<>> THEN 0 ELSE Head(rows)[col] + col_sum(Tail(rows), col)

\* Series.unique(): the distinct values in order of first appearance.
RECURSIVE unique(_, _)
unique(rows, col) ==
    IF rows = <<>> THEN <<>>
    ELSE LET init == unique(SubSeq(rows, 1, Len(rows) - 1), col)
             v == rows[Len(rows)][col]
         IN IF \E i \in 1..Len(init) : init[i] = v THEN init ELSE Append(init, v)

\* Series.isin(values): membership; a NaN cell matches a NaN among values.
isin(v, values) == \E i \in 1..Len(values) : values[i] = v

\* Boolean-mask row selection rows.loc[m]: the rows whose mask entry is True,
\* order unchanged.
RECURSIVE loc(_, _)
loc(rows, m) ==
    IF rows = <<>> THEN <<>>
    ELSE IF Head(m) THEN <<Head(rows)>> \o loc(Tail(rows), Tail(m))
                    ELSE loc(Tail(rows), Tail(m))

\* Series.max() of an integer column: NaN when the column is empty.
col_max(rows, col) ==
    IF rows = <<>> THEN NaN
    ELSE Num(CHOOSE m \in {rows[i][col] : i \in 1..Len(rows)} :
                 \A i \in 1..Len(rows) : rows[i][col] <= m)

\* Series.mean(): NaN when the column is empty.
col_mean(rows, col) == TrueDiv(col_sum(rows, col), Len(rows))

\* groupby(key, sort=False): the keys in order of first appearance.
group_keys_unsorted(rows, key) == unique(rows, key)

\* The group keys of groupby(key): missing keys dropped, sorted ascending.
group_keys(rows, key) ==
    IF key = "YearMonth"
    THEN LET ks == {rows[i][key] : i \in 1..Len(rows)} \ {NaT}
         IN SortBy(ks, [k \in ks |-> TsOrd(k)])
    ELSE LET ks == {rows[i][key] : i \in 1..Len(rows)} \ {NA}
         IN SortBy(ks, [k \in ks |-> StrRank(k)])

\* The rows of one group, in row order.
group_rows(rows, key, k) == loc(rows, [i \in 1..Len(rows) |-> rows[i][key] = k])

\* groupby(key)[col].max(): the largest value of each group, not the sum.
groupby_max(rows, key, col) ==
    LET ks == group_keys(rows, key)
    IN [i \in 1..Len(ks) |->
           [key |-> ks[i], value |-> col_max(group_rows(rows, key, ks[i]), col).num]]

\* groupby(key)[col].sum(): one entry per key, in key order.
groupby_sum(rows, key, col) ==
    LET ks == group_keys(rows, key)
    IN [i \in 1..Len(ks) |->
           [key |-> ks[i], value |-> col_sum(group_rows(rows, key, ks[i]), col)]]

\* Series.min() / Series.max() of the YearMonth column: NaT when it is empty.
ts_min(rows) ==
    IF rows = <<>> THEN NaT
    ELSE CHOOSE t \in {rows[i].YearMonth : i \in 1..Len(rows)} :
             \A i \in 1..Len(rows) : TsOrd(t) <= TsOrd(rows[i].YearMonth)

ts_max(rows) ==
    IF rows = <<>> THEN NaT
    ELSE CHOOSE t \in {rows[i].YearMonth : i \in 1..Len(rows)} :
             \A i \in 1..Len(rows) : TsOrd(rows[i].YearMonth) <= TsOrd(t)

\* The values a multiselect over options can return: the chosen options, in
\* option order.
Selections(options) ==
    {LET idx == SortBy(T, [i \in T |-> i])
     IN [k \in 1..Len(idx) |-> options[idx[k]]] : T \in SUBSET (1..Len(options))}

\* All sequences of at most n elements of S.
SeqsUpTo(S, n) == UNION {[1..k -> S] : k \in 0..n}

(***************************************************************************)
(* load_data                                                               *)
(***************************************************************************)
\* One cleaned row: YearMonth parsed to the first of its month, Condition
\* stripped; every other column as read.
clean_row(r) ==
    [r EXCEPT !.YearMonth = parse_year_month(r.YearMonth),
              !.Condition = strip(r.Condition)]

\* pd.to_datetime raises on a cell that is no calendar month.
load_raises(rows) == \E i \in 1..Len(rows) : ~ValidMonth(rows[i].YearMonth.month)

load_data(rows) == [i \in 1..Len(rows) |-> clean_row(rows[i])]

(***************************************************************************)
(* The steps of the script                                                 *)
(***************************************************************************)
Crash(e) == pc' = "crashed" /\ err' = e

\* Lines 21-25: the file is read, parsed and cleaned; a missing file stops the
\* script with a message, any other exception is uncaught.
LoadData(files) ==
    /\ pc = "load"
    /\ \E file \in files :
         \/ /\ ~file.exists
            /\ pc' = "stopped"
            /\ err' = "FileNotFoundError"
            /\ df' = df
         \/ /\ file.exists
            /\ load_raises(file.rows)
            /\ Crash("ValueError")
            /\ df' = df
         \/ /\ file.exists
            /\ ~load_raises(file.rows)
            /\ df' = load_data(file.rows)
            /\ pc' = "sidebar"
            /\ err' = err
    /\ UNCHANGED <<selection, species, inspection_types, date_range, start_date,
                   end_date, filtered, metrics, monthly, species_stats,
                   insp_stats, inhab, plants, labels, bdata>>

\* The days the calendar of the date input offers.
DateChoices == {Date(2020, 10, 1), Date(2020, 10, 15), Date(2020, 11, 1)}

\* What st.date_input returns for a range: nothing, a start only, or a start
\* and an end not before it.
DateRanges(lo, hi) ==
    LET days == DateChoices \cup {lo, hi}
    IN {<<>>} \cup {<<a>> : a \in days}
       \cup {p \in days \X days :
                 TsOrd(to_datetime(p[1])) <= TsOrd(to_datetime(p[2]))}

\* Lines 28-31: the three sidebar widgets.  The date input's default is built
\* from min().date() and max().date(), which raise on NaT (a frame of no rows).
SidebarFilters ==
    /\ pc = "sidebar"
    /\ \/ /\ ts_min(df) = NaT
          /\ Crash("ValueError")
          /\ UNCHANGED <<selection, species, inspection_types, date_range>>
       \/ /\ ts_min(df) # NaT
          /\ \E sp \in Selections(unique(df, "Species")),
                it \in Selections(unique(df, "InspectionType")),
                dr \in DateRanges(ts_date(ts_min(df)), ts_date(ts_max(df))) :
               /\ species' = sp
               /\ inspection_types' = it
               /\ date_range' = dr
               /\ selection' = [species |-> sp, inspection_types |-> it,
                                date_range |-> dr]
          /\ pc' = "default"
          /\ err' = err
    /\ UNCHANGED <<df, start_date, end_date, filtered, metrics, monthly,
                   species_stats, insp_stats, inhab, plants, labels, bdata>>

\* The selection used as it is, an empty one included.
keep_chosen(chosen, all) == chosen

\* Lines 33-36: an empty selection is replaced by every value of the column.
default_all(chosen, all) == IF chosen = <<>> THEN all ELSE chosen

Defaulting ==
    /\ pc = "default"
    /\ species' = default_all(species, unique(df, "Species"))
    /\ inspection_types' = default_all(inspection_types, unique(df, "InspectionType"))
    /\ pc' = "convert"
    /\ UNCHANGED <<err, df, selection, date_range, start_date, end_date, filtered,
                   metrics, monthly, species_stats, insp_stats, inhab, plants,
                   labels, bdata>>

\* Lines 40-41: date_range[0] and date_range[1]; an index past the end of the
\* tuple raises IndexError.
ConvertDates ==
    /\ pc = "convert"
    /\ \/ /\ Len(date_range) < 2
          /\ Crash("IndexError")
          /\ UNCHANGED <<start_date, end_date>>
       \/ /\ Len(date_range) >= 2
          /\ start_date' = to_datetime(date_range[1])
          /\ end_date' = to_datetime(date_range[2])
          /\ pc' = "mask"
          /\ err' = err
    /\ UNCHANGED <<df, selection, species, inspection_types, date_range, filtered,
                   metrics, monthly, species_stats, insp_stats, inhab, plants,
                   labels, bdata>>

\* The mask with the end of the range excluded (< for <=).
mask_open_end(rows, sp, it, lo, hi) ==
    [i \in 1..Len(rows) |->
        /\ isin(rows[i].Species, sp)
        /\ isin(rows[i].InspectionType, it)
        /\ TsLE(lo, rows[i].YearMonth)
        /\ TsLE(rows[i].YearMonth, hi) /\ rows[i].YearMonth # hi]

\* Lines 44-49: one boolean per row.
mask(rows, sp, it, lo, hi) ==
    [i \in 1..Len(rows) |->
        /\ isin(rows[i].Species, sp)
        /\ isin(rows[i].InspectionType, it)
        /\ TsLE(lo, rows[i].YearMonth)
        /\ TsLE(rows[i].YearMonth, hi)]

\* Line 50.
ApplyMask ==
    /\ pc = "mask"
    /\ filtered' = loc(df, mask(df, species, inspection_types, start_date, end_date))
    /\ pc' = "summary"
    /\ UNCHANGED <<err, df, selection, species, inspection_types, date_range,
                   start_date, end_date, metrics, monthly, species_stats,
                   insp_stats, inhab, plants, labels, bdata>>

\* int(x) of a numpy scalar: a NaN or an infinity raises.
int_raises(v) == v.kind # "num"

\* Lines 56-59: the three metrics, in order; the first two are shown even when
\* the third raises.
SummaryMetrics ==
    /\ pc = "summary"
    /\ LET total == Num(col_sum(filtered, "NumberOfConditions"))
           avg == col_mean(filtered, "PercentageOfThroughput")
           most == col_max(filtered, "NumberOfThroughputPlants")
       IN \/ /\ int_raises(most)
             /\ metrics' = <<total, avg>>
             /\ Crash("ValueError")
          \/ /\ ~int_raises(most)
             /\ metrics' = <<total, avg, most>>
             /\ pc' = "monthly"
             /\ err' = err
    /\ UNCHANGED <<df, selection, species, inspection_types, date_range,
                   start_date, end_date, filtered, monthly, species_stats,
                   insp_stats, inhab, plants, labels, bdata>>

\* Line 66.
ConditionsOverTime ==
    /\ pc = "monthly"
    /\ monthly' = groupby_sum(filtered, "YearMonth", "NumberOfConditions")
    /\ pc' = "species_stats"
    /\ UNCHANGED <<err, df, selection, species, inspection_types, date_range,
                   start_date, end_date, filtered, metrics, species_stats,
                   insp_stats, inhab, plants, labels, bdata>>

\* Line 86: total_conditions / total_throughput * 100.
rate(conditions, throughput) == Times100(TrueDiv(conditions, throughput))

\* Lines 82-86.
species_rates(rows) ==
    LET ks == group_keys(rows, "Species")
    IN [i \in 1..Len(ks) |->
          LET g == group_rows(rows, "Species", ks[i])
              c == col_sum(g, "NumberOfConditions")
              t == col_sum(g, "Throughput")
          IN [key |-> ks[i], total_conditions |-> c, total_throughput |-> t,
              rate |-> rate(c, t)]]

ConditionRateBySpecies ==
    /\ pc = "species_stats"
    /\ species_stats' = species_rates(filtered)
    /\ pc' = "insp_stats"
    /\ UNCHANGED <<err, df, selection, species, inspection_types, date_range,
                   start_date, end_date, filtered, metrics, monthly, insp_stats,
                   inhab, plants, labels, bdata>>

\* Line 100: the sum of the grouped condition counts.
RECURSIVE total_conditions(_)
total_conditions(stats) ==
    IF stats = <<>> THEN 0 ELSE Head(stats).value + total_conditions(Tail(stats))

\* The shares left as fractions of 1 (the factor 100 forgotten).
shares_as_fractions(stats) ==
    [i \in 1..Len(stats) |->
        [key |-> stats[i].key,
         value |-> TrueDiv(stats[i].value, total_conditions(stats))]]

\* Line 101: each group's count over the total, times 100.
shares(stats) ==
    [i \in 1..Len(stats) |->
        [key |-> stats[i].key,
         value |-> Times100(TrueDiv(stats[i].value, total_conditions(stats)))]]

\* Lines 95-101.  The throughput column of insp_stats is never read.
InspectionDistribution ==
    /\ pc = "insp_stats"
    /\ insp_stats' = groupby_sum(filtered, "InspectionType", "NumberOfConditions")
    /\ inhab' = shares(groupby_sum(filtered, "InspectionType", "NumberOfConditions"))
    /\ pc' = "plants"
    /\ UNCHANGED <<err, df, selection, species, inspection_types, date_range,
                   start_date, end_date, filtered, metrics, monthly,
                   species_stats, plants, labels, bdata>>

\* Line 127.
PlantCoverage ==
    /\ pc = "plants"
    /\ plants' = groupby_sum(filtered, "YearMonth", "NumberOfThroughputPlants")
    /\ pc' = "severity"
    /\ UNCHANGED <<err, df, selection, species, inspection_types, date_range,
                   start_date, end_date, filtered, metrics, monthly,
                   species_stats, insp_stats, inhab, labels, bdata>>

\* The values of one column, in row order.
column(rows, col) == [i \in 1..Len(rows) |-> rows[i][col]]

\* The distinct values of a species only (a drop_duplicates too many).
severity_distinct(rows, sp) ==
    unique(loc(rows, [i \in 1..Len(rows) |->
                         rows[i].Species # NA /\ rows[i].Species = sp]),
           "PercentageOfThroughput")

\* Line 144: filtered[filtered['Species'] == sp]['PercentageOfThroughput'];
\* == is False on a missing cell.
severity_of(rows, sp) ==
    column(loc(rows, [i \in 1..Len(rows) |->
                         rows[i].Species # NA /\ rows[i].Species = sp]),
           "PercentageOfThroughput")

\* Lines 143-144.
SeverityDistribution ==
    /\ pc = "severity"
    /\ labels' = unique(filtered, "Species")
    /\ bdata' = [i \in 1..Len(unique(filtered, "Species")) |->
                    severity_of(filtered, unique(filtered, "Species")[i])]
    /\ pc' = "done"
    /\ UNCHANGED <<err, df, selection, species, inspection_types, date_range,
                   start_date, end_date, filtered, metrics, monthly,
                   species_stats, insp_stats, inhab, plants>>

(***************************************************************************)
(* Inputs                                                                  *)
(***************************************************************************)
Oct == [year |-> 2020, month |-> 10]

Nov == [year |-> 2020, month |-> 11]

Dec == [year |-> 2020, month |-> 12]

\* A cell that is no month.
BadMonth == [year |-> 2020, month |-> 13]

Row(ym, sp, it, cond, n, thr, pct, pl) ==
    [YearMonth |-> ym, Species |-> sp, InspectionType |-> it, Condition |-> cond,
     NumberOfConditions |-> n, Throughput |-> thr,
     PercentageOfThroughput |-> pct, NumberOfThroughputPlants |-> pl]

Bruising == <<"B", "r">>

NoFile == [exists |-> FALSE, rows |-> <<>>]

FilesOf(rawRows) ==
    {[exists |-> TRUE, rows |-> rs] : rs \in SeqsUpTo(rawRows, MaxRows)} \cup {NoFile}

\* Rows of the whole-script specification.
FullRows ==
    {Row(ym, sp, "Post-mortem", Bruising, n, 4, 1, 3) :
        ym \in {Oct, Nov, BadMonth}, sp \in {"Cattle", "Sheep"}, n \in {0, 2}}

\* Rows of the load specification: what load_data lets through.
LoadRows ==
    {Row(ym, "Cattle", "Post-mortem", cond, k[1], k[2], 1, k[3]) :
        ym \in {Oct, BadMonth},
        cond \in {Bruising, <<" ", "B", " ", "r", " ">>, <<" ", " ">>},
        k \in {<<2, 4, 3>>, <<-1, 4, 3>>, <<2, -1, 3>>, <<2, 4, -1>>}}

\* Frames of the filter specification.
FilterFrames ==
    {load_data(rs) : rs \in SeqsUpTo(
        {Row(ym, k[1], k[2], Bruising, 2, 4, 1, 3) :
            ym \in {Oct, Nov},
            k \in {<<"Cattle", "Post-mortem">>, <<"Sheep", "Post-mortem">>,
                   <<"Cattle", NA>>}}, MaxRows)}

\* Frames of the specification of the views grouped by month.
TimeFrames ==
    {load_data(rs) : rs \in SeqsUpTo(
        {Row(ym, "Cattle", "Post-mortem", Bruising, n, 4, 1, pl) :
            ym \in {Oct, Nov, Dec}, n \in {0, 2}, pl \in {1, 3}}, MaxRows)}

\* Frames of the specification of the rate by species.
RateFrames ==
    {load_data(rs) : rs \in SeqsUpTo(
        {Row(Oct, sp, "Post-mortem", Bruising, n, thr, 1, 3) :
            sp \in {"Cattle", "Sheep"}, n \in {0, 2}, thr \in {0, 4}}, MaxRows)}

\* Frames of the specification of the severity by species.
SeverityFrames ==
    {load_data(rs) : rs \in SeqsUpTo(
        {Row(ym, sp, "Post-mortem", Bruising, 2, 4, pct, 3) :
            ym \in {Oct, Nov}, sp \in {"Cattle", "Sheep"}, pct \in {1, 3}},
        MaxRows)}

\* Frames of the specification of the view grouped by inspection type.
ShareFrames ==
    {load_data(rs) : rs \in SeqsUpTo(
        {Row(Oct, "Cattle", it, Bruising, n, 4, 1, 3) :
            it \in {"Ante-mortem", "Post-mortem", NA}, n \in {-2, 0, 2}},
        MaxRows)}

(***************************************************************************)
(* Specifications                                                          *)
(***************************************************************************)
NoSelection == [species |-> <<>>, inspection_types |-> <<>>, date_range |-> <<>>]

Unset ==
    /\ err = "none"
    /\ selection = NoSelection
    /\ species = <<>>
    /\ inspection_types = <<>>
    /\ date_range = <<>>
    /\ start_date = NaT
    /\ end_date = NaT
    /\ filtered = <<>>
    /\ metrics = <<>>
    /\ monthly = <<>>
    /\ species_stats = <<>>
    /\ insp_stats = <<>>
    /\ inhab = <<>>
    /\ plants = <<>>
    /\ labels = <<>>
    /\ bdata = <<>>

\* The state before load_data is called.
Init == pc = "load" /\ df = <<>> /\ Unset

\* The state after a load, before the sidebar.
InitLoaded(frames) == pc = "sidebar" /\ df \in frames /\ Unset

\* The state before the mask: some species and every inspection type selected,
\* and either the default date range or a range that holds no first of a month.
InitMask(frames) ==
    /\ pc = "mask"
    /\ err = "none"
    /\ df \in frames \ {<<>>}
    /\ species \in Selections(unique(df, "Species")) \ {<<>>}
    /\ inspection_types = unique(df, "InspectionType")
    /\ date_range \in {<<ts_date(ts_min(df)), ts_date(ts_max(df))>>,
                       <<Date(2020, 10, 15), Date(2020, 10, 15)>>}
    /\ selection = [species |-> species, inspection_types |-> inspection_types,
                    date_range |-> date_range]
    /\ start_date = to_datetime(date_range[1])
    /\ end_date = to_datetime(date_range[2])
    /\ filtered = <<>>
    /\ metrics = <<>>
    /\ monthly = <<>>
    /\ species_stats = <<>>
    /\ insp_stats = <<>>
    /\ inhab = <<>>
    /\ plants = <<>>
    /\ labels = <<>>
    /\ bdata = <<>>

Filter == SidebarFilters \/ Defaulting \/ ConvertDates \/ ApplyMask

Engine ==
    \/ ApplyMask
    \/ SummaryMetrics
    \/ ConditionsOverTime
    \/ ConditionRateBySpecies
    \/ InspectionDistribution
    \/ PlantCoverage
    \/ SeverityDistribution

Next ==
    \/ LoadData(FilesOf(FullRows))
    \/ SidebarFilters
    \/ Defaulting
    \/ ConvertDates
    \/ ApplyMask
    \/ SummaryMetrics
    \/ ConditionsOverTime
    \/ ConditionRateBySpecies
    \/ InspectionDistribution
    \/ PlantCoverage
    \/ SeverityDistribution

\* The whole script.
Spec == Init /\ [][Next]_vars

\* load_data alone, over rows with blank conditions and negative numbers.
SpecLoad == Init /\ [][LoadData(FilesOf(LoadRows))]_vars

\* The sidebar and the filter.
SpecFilter == InitLoaded(FilterFrames) /\ [][Filter]_vars

\* The filter's last step and the views, over three kinds of frames.
SpecTime == InitMask(TimeFrames) /\ [][Engine]_vars

SpecRates == InitMask(RateFrames) /\ [][Engine]_vars

SpecSeverity == InitMask(SeverityFrames) /\ [][Engine]_vars

SpecShares == InitMask(ShareFrames) /\ [][Engine]_vars

(***************************************************************************)
(* Properties.  They are stated on the rows themselves (index sets, set    *)
(* membership, sums over index sets), not through the column helpers.      *)
(***************************************************************************)
Elems(q) == {q[i] : i \in 1..Len(q)}

\* out is rows restricted to the indices K, in the order of rows.
IsSelection(out, rows, K) ==
    /\ Len(out) = Cardinality(K)
    /\ \A i \in K : out[Cardinality({j \in K : j <= i})] = rows[i]

\* The sum of a column over the rows at the indices K.
RECURSIVE SumAt(_, _, _)
SumAt(rows, K, col) ==
    IF K = {} THEN 0
    ELSE LET i == CHOOSE x \in K : TRUE
         IN rows[i][col] + SumAt(rows, K \ {i}, col)

\* The sum of the values of a grouped series.
RECURSIVE SeriesTotal(_)
SeriesTotal(q) == IF q = <<>> THEN 0 ELSE Head(q).value + SeriesTotal(Tail(q))

\* The sum of a sequence of shares.
RECURSIVE ShareTotal(_)
ShareTotal(q) == IF q = <<>> THEN Num(0) ELSE ValAdd(Head(q).value, ShareTotal(Tail(q)))

\* Position of a calendar day.
DayOrd(d) == (d.year * 12 + (d.month - 1)) * 31 + (d.day - 1)

\* The record's period lies within the selected range, both ends included.
InRange(r) ==
    /\ DayOrd(selection.date_range[1]) <= DayOrd(ts_date(r.YearMonth))
    /\ DayOrd(ts_date(r.YearMonth)) <= DayOrd(selection.date_range[2])

\* The value is in the selected set, an empty set allowing every value.
Allowed(chosen, v) == chosen = <<>> \/ v \in Elems(chosen)

RowsInRange == {i \in 1..Len(df) : InRange(df[i])}

InSelectedSets(r) ==
    /\ r.Species \in Elems(selection.species)
    /\ r.InspectionType \in Elems(selection.inspection_types)
    /\ InRange(r)

MatchesCriteria(r) ==
    /\ Allowed(selection.species, r.Species)
    /\ Allowed(selection.inspection_types, r.InspectionType)
    /\ InRange(r)

FilterRan == Len(selection.date_range) = 2 => pc # "crashed"

\* C1 as stated: the filter returns exactly the records whose species is in
\* the selected species set, whose inspection type is in the selected type set
\* and whose period is within the inclusive range, in dataset order, and does
\* not raise.
C1_InSetsOnly ==
    /\ FilterRan
    /\ pc = "summary" => IsSelection(filtered, df, {i \in 1..Len(df) : InSelectedSets(df[i])})

\* C1 amended: the filter returns exactly the records whose species is in the
\* selected species set or that set is empty, whose inspection type is in the
\* selected type set or that set is empty, and whose period is within the
\* inclusive range, in dataset order (the empty sequence when none matches),
\* and does not raise.
C1_FilterExact ==
    /\ FilterRan
    /\ pc = "summary" => IsSelection(filtered, df, {i \in 1..Len(df) : MatchesCriteria(df[i])})

\* C1 witness: both sets chosen, two records kept in order and one left out.
C1_Witness ==
    /\ pc = "summary"
    /\ selection.species # <<>>
    /\ selection.inspection_types # <<>>
    /\ Len(filtered) >= 2
    /\ Len(filtered) < Len(df)

\* C2: an empty species or inspection-type selection restricts nothing on that
\* dimension; with both empty the result is exactly the records within the
\* inclusive date range.
C2_EmptyMeansAll ==
    pc = "summary" =>
        /\ (selection.species = <<>> /\ selection.inspection_types = <<>>)
              => IsSelection(filtered, df, RowsInRange)
        /\ selection.species = <<>> =>
              \A i \in RowsInRange :
                  Allowed(selection.inspection_types, df[i].InspectionType)
                      => df[i] \in Elems(filtered)
        /\ selection.inspection_types = <<>> =>
              \A i \in RowsInRange :
                  Allowed(selection.species, df[i].Species)
                      => df[i] \in Elems(filtered)

\* C2 witness: nothing selected, records of two species kept, one of them
\* without an inspection type, and one record outside the date range.
C2_Witness ==
    /\ pc = "summary"
    /\ selection.species = <<>>
    /\ selection.inspection_types = <<>>
    /\ Cardinality({filtered[i].Species : i \in 1..Len(filtered)}) = 2
    /\ \E i \in 1..Len(filtered) : filtered[i].InspectionType = NA
    /\ Len(filtered) < Len(df)

SummaryDone == pc \notin {"load", "sidebar", "default", "convert", "mask", "summary"}

\* C3 as stated: on an empty filtered set the summary does not fail and is
\* total 0, average 0, maximum 0.
C3_EmptySummary ==
    (SummaryDone /\ filtered = <<>>) =>
        /\ pc # "crashed"
        /\ Len(metrics) = 3
        /\ \A k \in 1..3 : ValEq(metrics[k], Num(0))

RatesDone == pc \in {"insp_stats", "plants", "severity", "done"}

OfSpecies(sp) == {i \in 1..Len(filtered) : filtered[i].Species = sp}

\* C4 as stated: each species of the filtered set has the rate 100 * summed
\* conditions / summed throughput when the summed throughput is positive and
\* the one undefined sentinel when it is zero.
C4_SpeciesRates ==
    RatesDone =>
        \A sp \in {filtered[i].Species : i \in 1..Len(filtered)} :
            \E k \in 1..Len(species_stats) :
                LET c == SumAt(filtered, OfSpecies(sp), "NumberOfConditions")
                    t == SumAt(filtered, OfSpecies(sp), "Throughput")
                IN /\ species_stats[k].key = sp
                   /\ t > 0 => ValEq(species_stats[k].rate,
                                     [kind |-> "num", num |-> 100 * c, den |-> t])
                   /\ t = 0 => species_stats[k].rate = NaN

SharesDone == pc \in {"plants", "severity", "done"}

OfType(it) == {i \in 1..Len(filtered) : filtered[i].InspectionType = it}

AllCounts == SumAt(filtered, 1..Len(filtered), "NumberOfConditions")

\* Every share is a number, every inspection type of the filtered set has its
\* share 100 * (its conditions) / (all conditions), and the shares add to 100.
SharesSumTo100 ==
    /\ \A k \in 1..Len(inhab) : inhab[k].value.kind = "num"
    /\ \A it \in {filtered[i].InspectionType : i \in 1..Len(filtered)} :
          \E k \in 1..Len(inhab) :
              /\ inhab[k].key = it
              /\ AllCounts # 0
              /\ ValEq(inhab[k].value,
                       TrueDiv(100 * SumAt(filtered, OfType(it), "NumberOfConditions"),
                               AllCounts))
    /\ ValEq(ShareTotal(inhab), Num(100))

Typed == \A i \in 1..Len(filtered) : filtered[i].InspectionType # NA

\* C5 as stated: for every non-empty filtered set of records that carry an
\* inspection type, also one whose condition counts are all 0, the shares are
\* all defined and add to 100.
C5_AnyNonEmptySet == (SharesDone /\ filtered # <<>> /\ Typed) => SharesSumTo100

\* C5 amended: for every non-empty filtered set whose records all carry an
\* inspection type and whose condition counts do not add to zero, the shares
\* are all defined and add to 100.
C5_NonZeroTotal ==
    (/\ SharesDone
     /\ filtered # <<>>
     /\ Typed
     /\ AllCounts # 0) => SharesSumTo100

\* C5 witness: two inspection types with non-zero shares.
C5_Witness ==
    /\ pc = "plants"
    /\ Typed
    /\ AllCounts # 0
    /\ Len(inhab) = 2
    /\ \A k \in 1..Len(inhab) : inhab[k].value.num # 0
    /\ Len(filtered) > Len(inhab)

TrendDone == pc \in {"species_stats", "insp_stats", "plants", "severity", "done"}

\* C6: the monthly totals add up to the Total Conditions metric.
C6_TrendAddsUp ==
    TrendDone => /\ metrics[1].kind = "num"
                 /\ metrics[1].den = 1
                 /\ SeriesTotal(monthly) = metrics[1].num

\* C6 witness: two months, one of them with two records, every count non-zero.
C6_Witness ==
    /\ pc = "species_stats"
    /\ Len(monthly) = 2
    /\ Len(filtered) > Len(monthly)
    /\ \A i \in 1..Len(filtered) : filtered[i].NumberOfConditions > 0

OfPeriod(t) == {i \in 1..Len(filtered) : filtered[i].YearMonth = t}

\* One entry per period of the filtered set, strictly ascending, each the sum of
\* the column over the period's records.
IsMonthlySeries(q, col) ==
    /\ {q[k].key : k \in 1..Len(q)} = {filtered[i].YearMonth : i \in 1..Len(filtered)}
    /\ \A k \in 1..Len(q) - 1 : TsOrd(q[k].key) < TsOrd(q[k + 1].key)
    /\ \A k \in 1..Len(q) : q[k].value = SumAt(filtered, OfPeriod(q[k].key), col)

\* C7: the trend and the plant coverage hold exactly one entry per period that
\* occurs in the filtered set, in strictly ascending order whatever the row
\* order, each entry the sum over its period's records.
C7_MonthlySeries ==
    /\ TrendDone => IsMonthlySeries(monthly, "NumberOfConditions")
    /\ pc \in {"severity", "done"} => IsMonthlySeries(plants, "NumberOfThroughputPlants")

\* C7 witness: rows December, October, December: out of order, with a month in
\* between that has no record.
C7_Witness ==
    /\ pc = "done"
    /\ Len(filtered) >= 3
    /\ TsOrd(filtered[1].YearMonth) > TsOrd(filtered[2].YearMonth)
    /\ filtered[3].YearMonth = filtered[1].YearMonth
    /\ Len(monthly) = 2
    /\ monthly[2].key.month - monthly[1].key.month = 2
    /\ Len(plants) = 2
    /\ \A i \in 1..Len(filtered) : filtered[i].NumberOfConditions > 0

\* C8 as stated: every record of a loaded dataset has a first-of-month period,
\* a condition that is not empty and no negative number.
C8_RecordInvariants ==
    pc = "sidebar" =>
        \A i \in 1..Len(df) :
            /\ df[i].YearMonth.day = 1
            /\ df[i].Condition # <<>>
            /\ df[i].NumberOfConditions >= 0
            /\ df[i].Throughput >= 0
            /\ df[i].NumberOfThroughputPlants >= 0

\* C9: the severity keys are exactly the species of the filtered set, and each
\* key holds the percentage of every filtered record of its species, once per
\* record, in filtered order.
C9_SeverityGroups ==
    pc = "done" =>
        /\ Elems(labels) = {filtered[i].Species : i \in 1..Len(filtered)}
        /\ Cardinality(Elems(labels)) = Len(labels)
        /\ Len(bdata) = Len(labels)
        /\ \A k \in 1..Len(labels) :
              /\ Len(bdata[k]) = Cardinality(OfSpecies(labels[k]))
              /\ \A i \in OfSpecies(labels[k]) :
                    bdata[k][Cardinality({j \in OfSpecies(labels[k]) : j <= i})]
                        = filtered[i].PercentageOfThroughput

\* C9 witness: a species of the dataset filtered out, and a species with the
\* same percentage twice.
C9_Witness ==
    /\ pc = "done"
    /\ \E i \in 1..Len(df) : df[i].Species \notin Elems(labels)
    /\ \E k \in 1..Len(bdata) : Len(bdata[k]) >= 2 /\ bdata[k][1] = bdata[k][2]

\* C10 as stated: once the sidebar has delivered a selection with a start date,
\* with or without an end date, the filter and the views run without raising.
C10_NeverRaises == Len(selection.date_range) \in {1, 2} => pc # "crashed"
====
